---- MODULE Spec2Model ----
(***************************************************************************)
(* Model of ledger-cli (src/ledger-cli/src/main.rs): `main` selects a      *)
(* transport and `execute` runs one command over it: build the APDU        *)
(* command, exchange it, check the status word, decode the payload.        *)
(*                                                                         *)
(* The APDU types, the Exchange trait and the three response decoders live *)
(* in sibling crates (ledger-transport, ledger-zondax-generic) and are     *)
(* modelled from the specification document.                               *)
(***************************************************************************)
EXTENDS Integers, Sequences, FiniteSets, TLC

(***************************************************************************)
(* Bounds                                                                  *)
(***************************************************************************)
\* longest payload the modelled transport returns in front of the status word
MaxPayloadLen == 7

\* payload byte values the modelled transport draws from
PayloadBytes == {0, 1, 2}
\* high / low status bytes the modelled transport draws from
\* 144 = 0x90, 106 = 0x6A, 105 = 0x69, 0 = 0x00, 130 = 0x82
StatusHi == {144, 106, 105}
StatusLo == {0, 130}
\* application classes tried by the default specification (0xB0, 0x00)
SomeClasses == {176, 0}
\* all values of a u8
Byte == 0..255

(***************************************************************************)
(* Program constants, main.rs lines 82-86                                  *)
(***************************************************************************)
INS_GET_VERSION == 0
CLA_APP_INFO == 176
INS_APP_INFO == 1
CLA_DEVICE_INFO == 224
INS_DEVICE_INFO == 1

(***************************************************************************)
(* Commands and Transport enums, main.rs lines 23-54                       *)
(***************************************************************************)
Transports == {"Hid", "Ble", "Tcp", "Zemu"}

CommandsOver(classes) ==
    {[variant |-> "DeviceInfo", cla |-> 0], [variant |-> "AppInfo", cla |-> 0]}
        \cup {[variant |-> "AppVersion", cla |-> c] : c \in classes}

NoCommand == [variant |-> "None", cla |-> 0]

(***************************************************************************)
(* APDUCommand::new(cla, ins): class, instruction, two zero parameter      *)
(* bytes and an empty payload.                                             *)
(***************************************************************************)
APDUCommandNew(cla, ins) ==
    [built |-> TRUE, cla |-> cla, ins |-> ins, p1 |-> 0, p2 |-> 0, data |-> <<>>]

NoFrame == [built |-> FALSE, cla |-> 0, ins |-> 0, p1 |-> 0, p2 |-> 0, data |-> <<>>]

(***************************************************************************)
(* Status codes: a 16-bit numeric space with a few named constants.        *)
(* 36864 = 0x9000, 27010 = 0x6982, 27264 = 0x6A80, 28416 = 0x6F00          *)
(***************************************************************************)
NamedCodes ==
    { [name |-> "NoError", value |-> 36864],
      [name |-> "EmptyBuffer", value |-> 27010],
      [name |-> "BadKeyHandle", value |-> 27264],
      [name |-> "Unknown", value |-> 28416] }

\* APDUAnswer::error_code(): Ok(named code) or Err(raw u16)
ErrorCode(retcode) ==
    IF \E n \in NamedCodes : n.value = retcode
    THEN [known |-> TRUE,
          name |-> (CHOOSE n \in NamedCodes : n.value = retcode).name,
          raw |-> retcode]
    ELSE [known |-> FALSE, name |-> "", raw |-> retcode]

(***************************************************************************)
(* Frame codec, decode side: the last two bytes are the big-endian status  *)
(* word, the bytes before them the payload; fewer than two bytes is a      *)
(* truncated response.                                                     *)
(***************************************************************************)
NoAnswer == [ok |-> FALSE, err |-> "None", data |-> <<>>, retcode |-> 0]

FrameDecode(raw) ==
    IF Len(raw) < 2
    THEN [ok |-> FALSE, err |-> "TruncatedResponse", data |-> <<>>, retcode |-> 0]
    ELSE [ok |-> TRUE, err |-> "",
          data |-> SubSeq(raw, 1, Len(raw) - 2),
          retcode |-> (raw[Len(raw) - 1] * 256 + raw[Len(raw)]) % 65536]

\* APDUAnswer::data()
ResponseData(answer) == answer.data

(***************************************************************************)
(* Response decoders                                                       *)
(***************************************************************************)
NoRecord == [kind |-> "None", fields |-> <<>>]

Malformed == [ok |-> FALSE, err |-> "Malformed", rec |-> NoRecord]

\* reads n fields, each preceded by its own length byte, starting at idx
RECURSIVE ReadFields(_, _, _)
ReadFields(p, idx, n) ==
    IF n = 0 THEN [ok |-> TRUE, fields |-> <<>>]
    ELSE IF idx > Len(p) THEN [ok |-> FALSE, fields |-> <<>>]
    ELSE IF idx + p[idx] > Len(p) THEN [ok |-> FALSE, fields |-> <<>>]
    ELSE LET rest == ReadFields(p, idx + p[idx] + 1, n - 1)
         IN  IF rest.ok
             THEN [ok |-> TRUE,
                   fields |-> <<SubSeq(p, idx + 1, idx + p[idx])>> \o rest.fields]
             ELSE [ok |-> FALSE, fields |-> <<>>]

\* width of the fixed target identifier that opens a device-info payload
TargetIdLen == 4
\* number of components of a version (major, minor, patch)
VersionLen == 3

\* DeviceInfo::try_from: target id, then se version, flags, mcu version
DecodeDeviceInfo(p) ==
    IF Len(p) < TargetIdLen + 3 THEN Malformed
    ELSE LET r == ReadFields(p, TargetIdLen + 1, 3)
         IN  IF r.ok
             THEN [ok |-> TRUE, err |-> "",
                   rec |-> [kind |-> "DeviceInfo",
                            fields |-> <<SubSeq(p, 1, TargetIdLen)>> \o r.fields]]
             ELSE Malformed

\* AppInfo::try_from: name, version, flags, each length-prefixed
DecodeAppInfo(p) ==
    LET r == ReadFields(p, 1, 3)
    IN  IF r.ok
        THEN [ok |-> TRUE, err |-> "", rec |-> [kind |-> "AppInfo", fields |-> r.fields]]
        ELSE Malformed

\* Version::try_from: major, minor, patch and an optional flag byte
DecodeVersion(p) ==
    IF Len(p) < VersionLen THEN Malformed
    ELSE [ok |-> TRUE, err |-> "",
          rec |-> [kind |-> "Version",
                   fields |-> << <<p[1]>>, <<p[2]>>, <<p[3]>>,
                                 IF Len(p) > VersionLen THEN <<p[4]>> ELSE <<>> >>]]

RunDecoder(name, p) ==
    CASE name = "DeviceInfo" -> DecodeDeviceInfo(p)
      [] name = "AppInfo" -> DecodeAppInfo(p)
      [] name = "Version" -> DecodeVersion(p)
      [] OTHER -> [ok |-> TRUE, err |-> "", rec |-> NoRecord]

(***************************************************************************)
(* What the transport can hand back                                        *)
(***************************************************************************)
RECURSIVE SeqsUpTo(_, _)
SeqsUpTo(S, n) ==
    IF n = 0 THEN {<<>>}
    ELSE LET shorter == SeqsUpTo(S, n - 1)
         IN  shorter \cup {Append(s, b) : s \in {t \in shorter : Len(t) = n - 1}, b \in S}

\* wire responses: short garbage, or a payload followed by two status bytes
RawResponses ==
    {<<>>} \cup {<<b>> : b \in StatusHi}
        \cup {p \o <<hi, lo>> : p \in SeqsUpTo(PayloadBytes, MaxPayloadLen),
                                hi \in StatusHi, lo \in StatusLo}

\* a handful of wire responses, one per outcome of execute
FewRawResponses ==
    { <<>>, <<106, 130>>, <<105, 130>>, <<144, 0>>,
      <<1, 2, 3, 144, 0>>, <<0, 0, 0, 144, 0>>,
      <<1, 1, 1, 1, 0, 0, 0, 144, 0>>, <<1, 1, 1, 1, 0, 0, 144, 0>> }

TransportError == [ok |-> FALSE, err |-> "Transport", data |-> <<>>, retcode |-> 0]


(***************************************************************************)
(* State                                                                   *)
(***************************************************************************)
VARIABLES
    pc,         \* position in main / execute
    transport,  \* args.transport
    cmd,        \* the Commands value carried by Transport::Tcp
    command,    \* execute: the APDUCommand built from cmd
    exchanges,  \* number of calls of t.exchange
    raw,        \* bytes the transport read from the wire in the last exchange
    exchanged,  \* the Result t.exchange returned
    response,   \* execute: the APDUAnswer bound by `let response = ...?`
    checked,    \* execute: the status the match on error_code() inspected
    decoder,    \* execute: the decoder the second match ran
    record,     \* execute: the typed record the decoder produced
    outcome,    \* the Result execute returned
    exit,       \* how main ended
    trace       \* execute: the steps taken, in order

vars == <<pc, transport, cmd, command, exchanges, raw, exchanged, response,
          checked, decoder, record, outcome, exit, trace>>

Pending == [kind |-> "Pending", text |-> "", name |-> "", raw |-> -1]
OkOutcome == [kind |-> "Ok", text |-> "", name |-> "", raw |-> -1]
ErrOutcome(kind, text, name, value) ==
    [kind |-> kind, text |-> text, name |-> name, raw |-> value]

NotChecked == [known |-> FALSE, name |-> "-", raw |-> -1]

InitOver(classes) ==
    /\ pc = "main"
    /\ transport \in Transports
    /\ cmd \in (IF transport = "Tcp" THEN CommandsOver(classes) ELSE {NoCommand})
    /\ command = NoFrame
    /\ exchanges = 0
    /\ raw = <<>>
    /\ exchanged = NoAnswer
    /\ response = NoAnswer
    /\ checked = NotChecked
    /\ decoder = "None"
    /\ record = NoRecord
    /\ outcome = Pending
    /\ exit = "running"
    /\ trace = <<>>

Init == InitOver(SomeClasses)

InitAllClasses == InitOver(Byte)

(***************************************************************************)
(* main, lines 57-80                                                       *)
(***************************************************************************)
\* match args.transport: only Tcp has an arm, the rest hit todo!()
TransportArm(t) == IF t = "Tcp" THEN "connect" ELSE "todo"

MainMatch ==
    /\ pc = "main"
    /\ IF TransportArm(transport) = "connect"
       THEN /\ pc' = "connect"
            /\ exit' = exit
       ELSE /\ pc' = "done"
            /\ exit' = "panic"
    /\ UNCHANGED <<transport, cmd, command, exchanges, raw, exchanged, response,
                   checked, decoder, record, outcome, trace>>

\* TransportTcp::new(opts).await? : the connection is made or main returns Err
Connect ==
    /\ pc = "connect"
    /\ \E connected \in BOOLEAN :
          IF connected
          THEN /\ pc' = "build"
               /\ exit' = exit
          ELSE /\ pc' = "done"
               /\ exit' = "error"
    /\ UNCHANGED <<transport, cmd, command, exchanges, raw, exchanged, response,
                   checked, decoder, record, outcome, trace>>

\* execute(t, cmd).await? ; println!("Hello, world!"); Ok(())
MainReturn ==
    /\ pc = "ret"
    /\ pc' = "done"
    /\ exit' = (IF outcome.kind = "Ok" THEN "ok" ELSE "error")
    /\ UNCHANGED <<transport, cmd, command, exchanges, raw, exchanged, response,
                   checked, decoder, record, outcome, trace>>

(***************************************************************************)
(* execute, lines 89-131                                                   *)
(***************************************************************************)
\* BuildCommand with the AppVersion arm using the app-info class, not cla
BuildCommand_FixedClass(c) ==
    CASE c.variant = "DeviceInfo" ->
            [panic |-> FALSE, frame |-> APDUCommandNew(CLA_DEVICE_INFO, INS_DEVICE_INFO)]
      [] c.variant = "AppInfo" ->
            [panic |-> FALSE, frame |-> APDUCommandNew(CLA_APP_INFO, INS_APP_INFO)]
      [] c.variant = "AppVersion" ->
            [panic |-> FALSE, frame |-> APDUCommandNew(CLA_APP_INFO, INS_GET_VERSION)]
      [] OTHER -> [panic |-> TRUE, frame |-> NoFrame]

\* lines 95-100: the match that sets up the command APDU
BuildCommand(c) ==
    CASE c.variant = "DeviceInfo" ->
            [panic |-> FALSE, frame |-> APDUCommandNew(CLA_DEVICE_INFO, INS_DEVICE_INFO)]
      [] c.variant = "AppInfo" ->
            [panic |-> FALSE, frame |-> APDUCommandNew(CLA_APP_INFO, INS_APP_INFO)]
      [] c.variant = "AppVersion" ->
            [panic |-> FALSE, frame |-> APDUCommandNew(c.cla, INS_GET_VERSION)]
      [] OTHER -> [panic |-> TRUE, frame |-> NoFrame]

Build ==
    /\ pc = "build"
    /\ LET b == BuildCommand(cmd)
       IN  IF b.panic
           THEN /\ pc' = "done"
                /\ exit' = "panic"
                /\ UNCHANGED <<command, trace>>
           ELSE /\ pc' = "send"
                /\ command' = b.frame
                /\ trace' = Append(trace, "build")
                /\ exit' = exit
    /\ UNCHANGED <<transport, cmd, exchanges, raw, exchanged, response,
                   checked, decoder, record, outcome>>

\* ExchangeTry with the error replaced by a default answer (unwrap_or_default)
ExchangeTry_Default(res) ==
    IF res.ok
    THEN [ret |-> FALSE, outcome |-> Pending, response |-> res]
    ELSE [ret |-> FALSE, outcome |-> Pending,
          response |-> [ok |-> TRUE, err |-> "", data |-> <<>>, retcode |-> 0]]

\* ExchangeTry returning early on a transport failure only
ExchangeTry_OnlyTransport(res) ==
    IF res.ok \/ res.err # "Transport"
    THEN [ret |-> FALSE, outcome |-> Pending, response |-> res]
    ELSE [ret |-> TRUE, outcome |-> ErrOutcome(res.err, "", "", -1), response |-> NoAnswer]

\* line 103: the `?` applied to the Result of t.exchange(&command).await
ExchangeTry(res) ==
    IF res.ok
    THEN [ret |-> FALSE, outcome |-> Pending, response |-> res]
    ELSE [ret |-> TRUE, outcome |-> ErrOutcome(res.err, "", "", -1), response |-> NoAnswer]

\* AfterExchange going straight to the decoder
AfterExchange_SkipValidate(r) == IF r.ret THEN "ret" ELSE "decode"

\* AfterExchange sending the command again after a failed exchange
AfterExchange_Retry(r) == IF r.ret THEN "send" ELSE "validate"

\* what is left to do after an exchange that came back with r
AfterExchange(r) == IF r.ret THEN "ret" ELSE "validate"

Send(raws) ==
    /\ pc = "send"
    /\ command.built
    /\ \E wire \in {[fail |-> TRUE, bytes |-> <<>>]}
                       \cup {[fail |-> FALSE, bytes |-> b] : b \in raws} :
          LET res == IF wire.fail THEN TransportError ELSE FrameDecode(wire.bytes)
              r == ExchangeTry(res)
          IN  /\ raw' = wire.bytes
              /\ exchanged' = res
              /\ exchanges' = exchanges + 1
              /\ response' = r.response
              /\ outcome' = r.outcome
              /\ pc' = AfterExchange(r)
    /\ trace' = Append(trace, "send")
    /\ UNCHANGED <<transport, cmd, command, checked, decoder, record, exit>>

\* StatusCheck with `Ok(_) => {}`: every named code passes
StatusCheck_KnownPasses(ec) ==
    IF ec.known
    THEN [ret |-> FALSE, outcome |-> Pending]
    ELSE [ret |-> TRUE,
          outcome |-> ErrOutcome("DeviceError", "unknown APDU response", "", ec.raw)]

\* StatusCheck reporting an unrecognized status as the named code Unknown
StatusCheck_UnknownAsNamed(ec) ==
    IF ec.known /\ ec.name = "NoError"
    THEN [ret |-> FALSE, outcome |-> Pending]
    ELSE IF ec.known
    THEN [ret |-> TRUE,
          outcome |-> ErrOutcome("DeviceError", "unhandled APDU response", ec.name, -1)]
    ELSE [ret |-> TRUE,
          outcome |-> ErrOutcome("DeviceError", "unhandled APDU response", "Unknown", -1)]

\* lines 104-108: the match on response.error_code()
StatusCheck(ec) ==
    IF ec.known /\ ec.name = "NoError"
    THEN [ret |-> FALSE, outcome |-> Pending]
    ELSE IF ec.known
    THEN [ret |-> TRUE,
          outcome |-> ErrOutcome("DeviceError", "unhandled APDU response", ec.name, -1)]
    ELSE [ret |-> TRUE,
          outcome |-> ErrOutcome("DeviceError", "unknown APDU response", "", ec.raw)]

Validate ==
    /\ pc = "validate"
    /\ LET ec == ErrorCode(response.retcode)
           s == StatusCheck(ec)
       IN  /\ checked' = ec
           /\ outcome' = s.outcome
           /\ pc' = (IF s.ret THEN "ret" ELSE "decode")
    /\ trace' = Append(trace, "validate")
    /\ UNCHANGED <<transport, cmd, command, exchanges, raw, exchanged, response,
                   decoder, record, exit>>

\* lines 114-128: the arm of the second match on cmd
DecoderFor(c) ==
    CASE c.variant = "DeviceInfo" -> "DeviceInfo"
      [] c.variant = "AppInfo" -> "AppInfo"
      [] c.variant = "AppVersion" -> "Version"
      [] OTHER -> "None"

\* DecodeTry with the decoder's error dropped (`if let Ok(..)`)
DecodeTry_Ignore(d) ==
    IF d.ok
    THEN [outcome |-> OkOutcome, record |-> d.rec]
    ELSE [outcome |-> OkOutcome, record |-> NoRecord]

\* DecodeTry keeping a half-filled record next to the error
DecodeTry_Partial(d) ==
    IF d.ok
    THEN [outcome |-> OkOutcome, record |-> d.rec]
    ELSE [outcome |-> ErrOutcome("Decode", "", d.err, -1),
          record |-> [kind |-> "Partial", fields |-> <<>>]]

\* lines 116, 120, 124: the `?` applied to the Result of try_from
DecodeTry(d) ==
    IF d.ok
    THEN [outcome |-> OkOutcome, record |-> d.rec]
    ELSE [outcome |-> ErrOutcome("Decode", "", d.err, -1), record |-> NoRecord]

Decode ==
    /\ pc = "decode"
    /\ LET response_data == ResponseData(response)
           name == DecoderFor(cmd)
           t == DecodeTry(RunDecoder(name, response_data))
       IN  /\ decoder' = name
           /\ record' = t.record
           /\ outcome' = t.outcome
    /\ pc' = "ret"
    /\ trace' = Append(trace, "decode")
    /\ UNCHANGED <<transport, cmd, command, exchanges, raw, exchanged, response,
                   checked, exit>>

(***************************************************************************)
(* Specifications                                                          *)
(***************************************************************************)
SendAny == Send(RawResponses)

SendFew == Send(FewRawResponses)

Next ==
    \/ MainMatch
    \/ Connect
    \/ Build
    \/ SendAny
    \/ Validate
    \/ Decode
    \/ MainReturn

Spec == Init /\ [][Next]_vars

\* every application class 0..255, a handful of wire responses
NextAllClasses ==
    \/ MainMatch
    \/ Connect
    \/ Build
    \/ SendFew
    \/ Validate
    \/ Decode
    \/ MainReturn

SpecAllClasses == InitAllClasses /\ [][NextAllClasses]_vars


(***************************************************************************)
(* Vocabulary of the properties.  The status and the payload are read off  *)
(* the wire bytes, not off what execute computed from them.                *)
(***************************************************************************)
\* 0x9000
SuccessStatus == 36864

ExecuteEnded == pc \in {"ret", "done"} /\ trace # <<>>

WireAnswered == exchanges > 0 /\ exchanged.err # "Transport"

WireStatus == raw[Len(raw) - 1] * 256 + raw[Len(raw)]

WirePayload == SubSeq(raw, 1, Len(raw) - 2)

Recognized(status) == \E n \in NamedCodes : n.value = status

\* the status an error outcome identifies
OutcomeStatus(o) ==
    IF o.name # "" /\ \E n \in NamedCodes : n.name = o.name
    THEN (CHOOSE n \in NamedCodes : n.name = o.name).value
    ELSE o.raw

Steps == <<"build", "send", "validate", "decode">>

Took(step) == \E i \in 1..Len(trace) : trace[i] = step

ExpectedDecoder ==
    CASE cmd.variant = "DeviceInfo" -> "DeviceInfo"
      [] cmd.variant = "AppInfo" -> "AppInfo"
      [] cmd.variant = "AppVersion" -> "Version"
      [] OTHER -> "-"

ExpectedFrame ==
    CASE cmd.variant = "DeviceInfo" -> [cla |-> 224, ins |-> 1]
      [] cmd.variant = "AppInfo" -> [cla |-> 176, ins |-> 1]
      [] cmd.variant = "AppVersion" -> [cla |-> cmd.cla, ins |-> 0]
      [] OTHER -> [cla |-> -1, ins |-> -1]

WireDecodes == RunDecoder(ExpectedDecoder, WirePayload).ok

(***************************************************************************)
(* C1: whatever the command, when the response's status word is not the    *)
(* success value, execute ends with a device-error outcome that identifies *)
(* that status, and no response decoder ran in that call.                  *)
(***************************************************************************)
C1_NonSuccessIsDeviceError ==
    (ExecuteEnded /\ WireAnswered /\ Len(raw) >= 2 /\ WireStatus # SuccessStatus)
        => /\ outcome.kind = "DeviceError"
           /\ OutcomeStatus(outcome) = WireStatus
           /\ decoder = "None"
           /\ ~Took("decode")
           /\ record = NoRecord

\* AppVersion answered [0x6A, 0x82]: DeviceError(0x6A82 = 27266)
C1_Witness ==
    /\ pc = "done"
    /\ cmd.variant = "AppVersion"
    /\ raw = <<106, 130>>
    /\ outcome.kind = "DeviceError"
    /\ outcome.raw = 27266
    /\ decoder = "None"

(***************************************************************************)
(* C2: the steps of one execute call happen in the order build, send,      *)
(* validate, decode: no exchange before the frame is built, no status      *)
(* check before the exchange has returned an answer, no decoder before the *)
(* status of that same answer has been found to be success.                *)
(***************************************************************************)
C2_StepsInOrder ==
    /\ Len(trace) <= Len(Steps)
    /\ trace = SubSeq(Steps, 1, Len(trace))
    /\ Took("send") => command.built
    /\ exchanges > 0 => Took("build")
    /\ Took("validate") => (exchanges = 1 /\ exchanged.ok /\ response = exchanged)
    /\ checked # NotChecked => Took("send")
    /\ (Took("decode") \/ decoder # "None")
          => /\ checked.known /\ checked.name = "NoError"
             /\ checked.raw = WireStatus
             /\ WireStatus = SuccessStatus

C2_Witness ==
    /\ pc = "done"
    /\ trace = Steps
    /\ decoder = "DeviceInfo"
    /\ record.kind = "DeviceInfo"

(***************************************************************************)
(* C3: in an execute call the transport's exchange is invoked at most      *)
(* once, and exactly once when the frame was built and the call has ended, *)
(* whatever the outcome: transport error, bad status or decode failure.    *)
(***************************************************************************)
C3_OneExchange ==
    /\ exchanges <= 1
    /\ (ExecuteEnded /\ command.built) => exchanges = 1
    /\ ~command.built => exchanges = 0

C3_Witness ==
    /\ pc = "done"
    /\ exchanges = 1
    /\ exchanged.err = "Transport"
    /\ outcome.kind = "Transport"

(***************************************************************************)
(* C4: the mapping from command to frame and decoder is fixed and total:   *)
(* DeviceInfo builds (0xE0, 0x01) and is decoded as DeviceInfo, AppInfo    *)
(* builds (0xB0, 0x01) and is decoded as AppInfo, AppVersion(cla) builds   *)
(* (cla, 0x00) for every byte cla and is decoded as Version; the payload   *)
(* of the frame is empty and no command is left without a frame.           *)
(***************************************************************************)
C4_StaticTotalMapping ==
    /\ (transport = "Tcp" /\ pc \notin {"main", "connect", "build"} /\ exit # "error")
          => command.built
    /\ transport = "Tcp" => exit # "panic"
    /\ command.built
          => /\ command.cla = ExpectedFrame.cla
             /\ command.ins = ExpectedFrame.ins
             /\ command.p1 = 0 /\ command.p2 = 0
             /\ command.data = <<>>
    /\ Took("decode") => decoder = ExpectedDecoder
    /\ decoder # "None" => decoder = ExpectedDecoder
    /\ record # NoRecord => record.kind = ExpectedDecoder

\* AppVersion{cla: 0xFF} answered [1, 2, 3, 0x90, 0x00]
C4_Witness ==
    /\ pc = "done"
    /\ cmd = [variant |-> "AppVersion", cla |-> 255]
    /\ command.cla = 255 /\ command.ins = 0
    /\ decoder = "Version"
    /\ record.fields = << <<1>>, <<2>>, <<3>>, <<>> >>

(***************************************************************************)
(* C5: when the status word is not a named code, execute fails with an     *)
(* error carrying the raw 16-bit value: never success, never a named code, *)
(* so different unrecognized status words give different failures.         *)
(***************************************************************************)
C5_UnrecognizedKeepsRawValue ==
    (ExecuteEnded /\ WireAnswered /\ Len(raw) >= 2 /\ ~Recognized(WireStatus))
        => /\ outcome.kind = "DeviceError"
           /\ outcome.raw = WireStatus
           /\ outcome.name = ""
           /\ ~checked.known
           /\ exit \in {"running", "error"}

\* a payload byte followed by 0x9082 = 36994, which no named code has
C5_Witness ==
    /\ pc = "done"
    /\ raw = <<1, 144, 130>>
    /\ outcome.text = "unknown APDU response"
    /\ outcome.raw = 36994
    /\ exit = "error"

(***************************************************************************)
(* C6: when the exchange fails, execute ends with the transport's error;   *)
(* no status is inspected, no decoder runs, no record is produced.         *)
(***************************************************************************)
C6_TransportErrorPropagates ==
    (ExecuteEnded /\ exchanges > 0 /\ exchanged.err = "Transport")
        => /\ outcome.kind = "Transport"
           /\ checked = NotChecked
           /\ ~Took("validate")
           /\ decoder = "None"
           /\ record = NoRecord
           /\ pc = "done" => exit = "error"

C6_Witness ==
    /\ pc = "done"
    /\ cmd.variant = "AppInfo"
    /\ exchanged = TransportError
    /\ outcome.kind = "Transport"
    /\ exit = "error"

(***************************************************************************)
(* C7: a wire response of 0 or 1 bytes is rejected as truncated before any *)
(* status is interpreted and before any decoder runs; a wire response of   *)
(* exactly 2 bytes is an empty payload and the big-endian status of those  *)
(* two bytes.                                                              *)
(***************************************************************************)
C7_TruncatedRejected ==
    /\ (ExecuteEnded /\ WireAnswered /\ Len(raw) < 2)
          => /\ outcome.kind = "TruncatedResponse"
             /\ checked = NotChecked
             /\ decoder = "None"
             /\ record = NoRecord
    /\ (ExecuteEnded /\ WireAnswered /\ Len(raw) = 2)
          => /\ response.ok
             /\ response.data = <<>>
             /\ response.retcode = raw[1] * 256 + raw[2]
             /\ checked.raw = raw[1] * 256 + raw[2]
             /\ outcome.kind # "TruncatedResponse"

C7_Witness ==
    /\ pc = "done"
    /\ exchanges = 1
    /\ Len(raw) = 1
    /\ outcome.kind = "TruncatedResponse"

(***************************************************************************)
(* C8: when the status is success and the decoder of the command rejects   *)
(* the payload (any payload shorter than the decoder's minimum, such as a  *)
(* device-info payload one byte short), execute returns a decode error:    *)
(* no panic, no success, no record.                                        *)
(***************************************************************************)
C8_DecodeFailureIsError ==
    (ExecuteEnded /\ WireAnswered /\ Len(raw) >= 2 /\ WireStatus = SuccessStatus
        /\ (~WireDecodes
            \/ (cmd.variant = "DeviceInfo" /\ Len(WirePayload) < 7)
            \/ (cmd.variant = "AppInfo" /\ Len(WirePayload) < 3)
            \/ (cmd.variant = "AppVersion" /\ Len(WirePayload) < 3)))
        => /\ outcome.kind = "Decode"
           /\ outcome.name = "Malformed"
           /\ record = NoRecord
           /\ exit # "panic"
           /\ pc = "done" => exit = "error"

\* a device-info payload of 6 bytes, one short of the minimum
C8_Witness ==
    /\ pc = "done"
    /\ cmd.variant = "DeviceInfo"
    /\ raw = <<0, 0, 0, 0, 0, 0, 144, 0>>
    /\ outcome.kind = "Decode"
    /\ exit = "error"

(***************************************************************************)
(* C9: selecting a transport that is not implemented (Hid, Ble, Zemu)      *)
(* ends the program with an error returned to the caller, not an abnormal  *)
(* abort, and without any exchange.                                        *)
(***************************************************************************)
C9_UnsupportedIsAnError ==
    (pc = "done" /\ transport # "Tcp")
        => /\ exit = "error"
           /\ exchanges = 0

(***************************************************************************)
(* C10: when an execute call has ended, it reports success exactly when    *)
(* the frame was built, the one exchange succeeded, the status was the     *)
(* success value and the decoder of the command accepted the payload; a    *)
(* record exists only with success.                                        *)
(***************************************************************************)
C10_SuccessIffAllStepsPassed ==
    /\ ExecuteEnded
          => /\ outcome.kind = "Ok"
                   <=> /\ command.built
                       /\ exchanges = 1
                       /\ WireAnswered
                       /\ Len(raw) >= 2
                       /\ WireStatus = SuccessStatus
                       /\ WireDecodes
             /\ outcome.kind = "Ok"
                   => record = RunDecoder(ExpectedDecoder, WirePayload).rec
             /\ outcome.kind # "Pending"
    /\ outcome.kind # "Ok" => record = NoRecord
    /\ outcome.kind = "Ok" => record.kind = ExpectedDecoder
    /\ exit = "ok" => outcome.kind = "Ok"

\* AppInfo answered three one-byte fields and 0x9000
C10_Witness ==
    /\ pc = "done"
    /\ cmd.variant = "AppInfo"
    /\ raw = <<1, 2, 1, 1, 1, 0, 144, 0>>
    /\ outcome.kind = "Ok"
    /\ record = [kind |-> "AppInfo", fields |-> << <<2>>, <<1>>, <<0>> >>]
    /\ exit = "ok"

====
